---- MODULE Spec2Model ----
(***************************************************************************)
(* Contact-form endpoint of nest.js-mailer: the ValidationPipe over        *)
(* MailerDto, MailerController.sendMail and RecaptchaService.verify.       *)
(*                                                                         *)
(* Strings that the code inspects character by character (form fields,     *)
(* the reCAPTCHA token) are sequences of one-character strings.  Literal   *)
(* pieces of a template are one multi-character element of the sequence.   *)
(* Scores are in tenths: 5 stands for 0.5.                                 *)
(***************************************************************************)
EXTENDS Integers, Sequences, FiniteSets, TLC

(* ------------------------------------------------------------------ *)
(* Program constants                                                   *)
(* ------------------------------------------------------------------ *)
FirstNameMax == 50
LastNameMax == 50
EmailMax == 100
PhoneMax == 20
PetTypeMax == 200
DatesMax == 200
\* token.substring(0, 20)
PartialTokenLen == 20
\* the handler's minimum score 0.5, in tenths
HandlerMinScore == 5
\* minScore: number = 0.5, in tenths
DefaultMinScore == 5

(* ------------------------------------------------------------------ *)
(* Bounds of the model                                                 *)
(* ------------------------------------------------------------------ *)
\* how far the longest token exceeds PartialTokenLen
TokenOver == 1
\* how far the overlong first name exceeds FirstNameMax
FieldOver == 1

(* ------------------------------------------------------------------ *)
(* JavaScript values and string functions                              *)
(* ------------------------------------------------------------------ *)
\* the value undefined (an absent property); `${undefined}` prints it
UNDEF == <<"undefined">>

Rep(c, n) == [i \in 1..n |-> c]

Min(a, b) == IF a < b THEN a ELSE b

\* !v for a string-or-undefined v
Falsy(v) == v = UNDEF \/ v = <<>>

WhiteSpace == {" "}

RECURSIVE TrimStart(_)
TrimStart(s) ==
  IF s # <<>> /\ Head(s) \in WhiteSpace THEN TrimStart(Tail(s)) ELSE s

RECURSIVE TrimEnd(_)
TrimEnd(s) ==
  IF s # <<>> /\ s[Len(s)] \in WhiteSpace
  THEN TrimEnd(SubSeq(s, 1, Len(s) - 1)) ELSE s

\* String.prototype.trim
Trim(s) == TrimEnd(TrimStart(s))

LowerChar(c) == IF c = "J" THEN "j" ELSE IF c = "X" THEN "x" ELSE c

\* String.prototype.toLowerCase
ToLowerCase(s) == [i \in 1..Len(s) |-> LowerChar(s[i])]

\* value?.trim()
OptTrim(v) == IF v = UNDEF THEN UNDEF ELSE Trim(v)

\* value?.trim().toLowerCase()
OptTrimLower(v) == IF v = UNDEF THEN UNDEF ELSE ToLowerCase(Trim(v))

\* token.substring(0, n)
Substring0(s, n) == SubSeq(s, 1, Min(Len(s), n))

\* needle occurs in hay as a contiguous run
Contains(hay, needle) ==
  \E i \in 0..(Len(hay) - Len(needle)) :
    SubSeq(hay, i + 1, i + Len(needle)) = needle

(* ------------------------------------------------------------------ *)
(* MailerDto: class-transformer transforms, class-validator rules      *)
(* ------------------------------------------------------------------ *)
\* plainToInstance with the @Transform decorators, then whitelist: true
\* drops every property that carries no decorator (message has none)
TransformDto(body) ==
  [firstName |-> OptTrim(body.firstName),
   lastName |-> OptTrim(body.lastName),
   email |-> OptTrimLower(body.email),
   phone |-> OptTrim(body.phone),
   petType |-> OptTrim(body.petType),
   dates |-> OptTrim(body.dates),
   recaptchaToken |-> body.recaptchaToken,
   message |-> UNDEF]

IsNotEmpty(v) == v # UNDEF /\ v # <<>>
IsString(v) == v # UNDEF
MaxLength(v, n) == v # UNDEF /\ Len(v) <= n

\* /^[\d\s\-\+\(\)]+$/
PhoneChars == {"5", " ", "-", "+", "(", ")"}
MatchesPhone(v) ==
  v # UNDEF /\ v # <<>> /\ \A i \in 1..Len(v) : v[i] \in PhoneChars

\* IsEmail, reduced to the shape local@domain.tld: one "@", a non-empty
\* local part, a "." in the domain with a label before it and at least two
\* characters after it, no white space
IsEmail(v) ==
  /\ v # UNDEF
  /\ \A i \in 1..Len(v) : v[i] \notin WhiteSpace
  /\ Cardinality({i \in 1..Len(v) : v[i] = "@"}) = 1
  /\ \E i \in 2..Len(v) :
       /\ v[i] = "@"
       /\ \E j \in (i + 2)..(Len(v) - 2) : v[j] = "."

FirstNameErrors(v) ==
  (IF IsNotEmpty(v) THEN {} ELSE {"First name is required"})
  \cup (IF IsString(v) THEN {} ELSE {"First name must be a string"})
  \cup (IF MaxLength(v, FirstNameMax) THEN {}
        ELSE {"First name cannot exceed 50 characters"})

LastNameErrors(v) ==
  (IF IsNotEmpty(v) THEN {} ELSE {"Last name is required"})
  \cup (IF IsString(v) THEN {} ELSE {"Last name must be a string"})
  \cup (IF MaxLength(v, LastNameMax) THEN {}
        ELSE {"Last name cannot exceed 50 characters"})

EmailErrors(v) ==
  (IF IsNotEmpty(v) THEN {} ELSE {"Email is required"})
  \cup (IF IsEmail(v) THEN {} ELSE {"Please provide a valid email address"})
  \cup (IF MaxLength(v, EmailMax) THEN {}
        ELSE {"Email cannot exceed 100 characters"})

PhoneErrors(v) ==
  (IF IsNotEmpty(v) THEN {} ELSE {"Phone number is required"})
  \cup (IF IsString(v) THEN {} ELSE {"Phone number must be a string"})
  \cup (IF MaxLength(v, PhoneMax) THEN {}
        ELSE {"Phone number cannot exceed 20 characters"})
  \cup (IF MatchesPhone(v) THEN {} ELSE {"Please provide a valid phone number"})

PetTypeErrors(v) ==
  (IF IsNotEmpty(v) THEN {} ELSE {"Pet type is required"})
  \cup (IF IsString(v) THEN {} ELSE {"Pet type must be a string"})
  \cup (IF MaxLength(v, PetTypeMax) THEN {}
        ELSE {"Pet type description cannot exceed 200 characters"})

DatesErrors(v) ==
  (IF IsNotEmpty(v) THEN {} ELSE {"Dates are required"})
  \cup (IF IsString(v) THEN {} ELSE {"Dates must be a string"})
  \cup (IF MaxLength(v, DatesMax) THEN {}
        ELSE {"Dates description cannot exceed 200 characters"})

TokenErrors(v) ==
  (IF IsNotEmpty(v) THEN {} ELSE {"Security verification is required"})
  \cup (IF IsString(v) THEN {} ELSE {"Invalid security token"})

\* validate(dto): every failing constraint's message
ValidationErrors(d) ==
  FirstNameErrors(d.firstName) \cup LastNameErrors(d.lastName)
  \cup EmailErrors(d.email) \cup PhoneErrors(d.phone)
  \cup PetTypeErrors(d.petType) \cup DatesErrors(d.dates)
  \cup TokenErrors(d.recaptchaToken)

(* ------------------------------------------------------------------ *)
(* RecaptchaService.verify                                             *)
(* ------------------------------------------------------------------ *)
\* an expectedAction that is undefined or ''
Unspecified == ""

NoScore == -1

Actions == {"contact_form", "submit"}
Scores == {0, 4, 5, 6, 10}

\* what the awaited httpService.post settles with: a rejection without a
\* response (network), a rejection with one (HTTP status), or a response
\* whose data may lack any of its parts
HttpFailures ==
  {[kind |-> k, hasBody |-> FALSE, hasTP |-> FALSE, valid |-> FALSE,
    action |-> "", hasRA |-> FALSE, score |-> NoScore] : k \in {"neterr", "httperr"}}

HttpNoBody ==
  {[kind |-> "ok", hasBody |-> FALSE, hasTP |-> FALSE, valid |-> FALSE,
    action |-> "", hasRA |-> FALSE, score |-> NoScore]}

HttpNoTokenProperties ==
  {[kind |-> "ok", hasBody |-> TRUE, hasTP |-> FALSE, valid |-> FALSE,
    action |-> "", hasRA |-> TRUE, score |-> s] : s \in Scores}

HttpNoRiskAnalysis ==
  {[kind |-> "ok", hasBody |-> TRUE, hasTP |-> TRUE, valid |-> v,
    action |-> a, hasRA |-> FALSE, score |-> NoScore] :
     v \in BOOLEAN, a \in Actions}

HttpAssessments ==
  {[kind |-> "ok", hasBody |-> TRUE, hasTP |-> TRUE, valid |-> v,
    action |-> a, hasRA |-> TRUE, score |-> s] :
     v \in BOOLEAN, a \in Actions, s \in Scores \cup {NoScore}}

HttpOutcomes ==
  HttpFailures \cup HttpNoBody \cup HttpNoTokenProperties
  \cup HttpNoRiskAnalysis \cup HttpAssessments

NoOutcome ==
  [kind |-> "none", hasBody |-> FALSE, hasTP |-> FALSE, valid |-> FALSE,
   action |-> "", hasRA |-> FALSE, score |-> NoScore]

\* how a call ends: it returns a value or it throws
Return(v) == [kind |-> "return", value |-> v, error |-> ""]
Throw(e) == [kind |-> "throw", value |-> FALSE, error |-> e]
NotEnded == [kind |-> "none", value |-> FALSE, error |-> ""]

\* one console.* call; text is what it prints of the token
LogEntry(level, msg, text) == [level |-> level, msg |-> msg, text |-> text]

\* the validity flag is not looked at
TokenValid_PresenceOnly(o) == o.hasTP

\* data.tokenProperties?.valid
TokenValid(o) == o.hasTP /\ o.valid

\* data.riskAnalysis?.score ?? 0
ScoreOf(o) == IF o.hasRA /\ o.score # NoScore THEN o.score ELSE 0

\* the threshold itself is rejected
ScoreTooLow_Inclusive(score, minScore) == score <= minScore

\* score < minScore
ScoreTooLow(score, minScore) == score < minScore

\* expectedAction && data.tokenProperties.action !== expectedAction
ActionMismatch(expectedAction, o) ==
  expectedAction # Unspecified /\ o.action # expectedAction

\* token.substring(0, 20) + '...'
PartialToken(token) == Substring0(token, PartialTokenLen) \o <<"...">>

\* the catch block passes the error on
VerifyCatch_Rethrow(error, hasResponse) ==
  [end |-> Throw(error),
   logs |-> <<LogEntry("error", "Error verifying reCAPTCHA Enterprise token:", <<>>)>>]

\* the catch block: log the error, log the response of an HTTP error,
\* return false
VerifyCatch(error, hasResponse) ==
  [end |-> Return(FALSE),
   logs |-> <<LogEntry("error", "Error verifying reCAPTCHA Enterprise token:", <<>>)>>
            \o (IF hasResponse
                THEN <<LogEntry("error", "reCAPTCHA Enterprise API error:", <<>>)>>
                ELSE <<>>)]

\* the body of the try block up to the awaited post: the token check
\* throws into the catch block, otherwise one request is posted
VerifyEnter(token, expectedAction) ==
  IF Falsy(token)
  THEN [awaiting |-> FALSE,
        requests |-> <<>>,
        result |-> VerifyCatch("reCAPTCHA token is required", FALSE)]
  ELSE [awaiting |-> TRUE,
        requests |-> <<[token |-> token,
                        expectedAction |-> IF expectedAction = Unspecified
                                           THEN "submit" ELSE expectedAction]>>,
        result |-> [end |-> NotEnded, logs |-> <<>>]]

\* the try block after the post has resolved with data
VerifyAssess(token, expectedAction, minScore, o) ==
  IF ~TokenValid(o)
  THEN [end |-> Return(FALSE),
        logs |-> <<LogEntry("warn", "reCAPTCHA Enterprise token invalid:",
                            PartialToken(token))>>]
  ELSE IF ActionMismatch(expectedAction, o)
  THEN [end |-> Return(FALSE),
        logs |-> <<LogEntry("warn", "reCAPTCHA Enterprise action mismatch:", <<>>)>>]
  ELSE IF ScoreTooLow(ScoreOf(o), minScore)
  THEN [end |-> Return(FALSE),
        logs |-> <<LogEntry("warn", "reCAPTCHA Enterprise score too low:", <<>>)>>]
  ELSE [end |-> Return(TRUE),
        logs |-> <<LogEntry("log", "reCAPTCHA Enterprise verification successful:",
                            <<>>)>>]

\* verify from the point where the awaited post settles with o
VerifyResume(token, expectedAction, minScore, o) ==
  IF o.kind # "ok"
  THEN VerifyCatch("AxiosError", o.kind = "httperr")
  ELSE IF ~o.hasBody
  THEN VerifyCatch("TypeError", FALSE)
  ELSE VerifyAssess(token, expectedAction, minScore, o)

(* ------------------------------------------------------------------ *)
(* MailerController                                                    *)
(* ------------------------------------------------------------------ *)
ExpectedAction == "contact_form"

\* sanitizeInput
SanitizeInput(data) ==
  [data EXCEPT !.firstName = OptTrim(data.firstName),
               !.lastName = OptTrim(data.lastName),
               !.email = OptTrimLower(data.email),
               !.message = data.message]

\* `${data.firstName} ${data.lastName}`
UserName(data) == data.firstName \o <<" ">> \o data.lastName

\* the confirmation to the submitter
UserMail(data, adminEmail) ==
  [kind |-> "user",
   to |-> data.email,
   from |-> adminEmail,
   subject |-> <<"Confirmation: Your message has been received">>,
   text |-> <<"Hi ">> \o UserName(data)
            \o <<", Thank you for reaching out to us ... do not reply to this message.">>]

\* the notification to the operator
AdminMail(data, adminEmail) ==
  [kind |-> "admin",
   to |-> adminEmail,
   from |-> adminEmail,
   subject |-> <<"New Contact Form Submission - ">> \o UserName(data),
   text |-> <<"New contact form submission received: Contact Information: - Name: ">>
            \o UserName(data)
            \o <<" - Email: ">> \o data.email
            \o <<" - Message: ">> \o data.message
            \o <<" Please respond to the customer within 24 hours.">>]

\* prepareEmailContent: throws when ADMIN_EMAIL is not configured
PrepareEmailContent(data, adminEmail) ==
  IF Falsy(adminEmail)
  THEN [end |-> Throw("ADMIN_EMAIL environment variable is not configured"),
        mails |-> <<>>]
  ELSE [end |-> Return(TRUE),
        mails |-> <<AdminMail(data, adminEmail), UserMail(data, adminEmail)>>]

MailKinds == {"admin", "user"}

\* the submitter's confirmation is not sent
DispatchBoth_AdminOnly(mails) == SubSeq(mails, 1, 1)

\* the mailerService.sendMail calls made to build the array handed to
\* Promise.allSettled: all of them, before anything is awaited
DispatchBoth(mails) == mails

\* only the operator send is awaited
AllSettled_AdminOnly(res) == res.admin \in {"fulfilled", "rejected"}

\* Promise.allSettled resolves once no promise is pending
AllSettled(res) == \A k \in MailKinds : res[k] \in {"fulfilled", "rejected"}

\* any rejected send throws, as with Promise.all
SendEmailsEnd_AnyRejection(res) ==
  IF res.admin = "rejected" \/ res.user = "rejected"
  THEN Throw("Failed to process contact form submission")
  ELSE Return(TRUE)

\* sendEmails after the await: only a rejected admin send throws
SendEmailsEnd(res) ==
  IF res.admin = "rejected"
  THEN Throw("Failed to process contact form submission")
  ELSE Return(TRUE)

\* sendEmails' logging after the await
SendEmailsLogs(res) ==
  IF res.admin = "rejected"
  THEN <<LogEntry("error", "Failed to send admin notification email", <<>>),
         LogEntry("error", "Email sending failed", <<>>)>>
  ELSE IF res.user = "rejected"
  THEN <<LogEntry("warn", "Failed to send user confirmation email", <<>>)>>
  ELSE <<>>

Response(status, messages) == [status |-> status, message |-> messages]
NoResponse == Response(0, {})

\* the ValidationPipe's BadRequestException
ValidationFailed(errors) == Response(400, errors)
\* BadRequestException('Security verification is required')
TokenMissing == Response(400, {"Security verification is required"})
\* UnauthorizedException
VerificationFailed ==
  Response(401, {"Security verification failed. Please try again."})
\* the catch block's HttpException for every other error
TechnicalDifficulties ==
  Response(500, {"We are currently experiencing technical difficulties. Please try again later or contact us directly."})
\* the handler's return value
Sent ==
  Response(201, {"Your message has been sent successfully. We will get back to you soon!"})

CatchLog == LogEntry("error", "Contact form error from IP", <<>>)

\* sendMail's catch block: Unauthorized and BadRequest pass, the rest is 500
SendMailCatch(thrown) ==
  IF thrown \in {TokenMissing, VerificationFailed} THEN thrown
  ELSE TechnicalDifficulties

\* sendMail from the return of verify to the await of sendEmails
SendMailAfterVerify(end, data, adminEmail) ==
  IF end.kind = "throw"
  THEN [response |-> SendMailCatch(Response(400, {end.error})),
        mails |-> <<>>, logs |-> <<CatchLog>>]
  ELSE IF ~end.value
  THEN [response |-> SendMailCatch(VerificationFailed),
        mails |-> <<>>,
        logs |-> <<LogEntry("warn", "reCAPTCHA verification failed from IP", <<>>),
                   CatchLog>>]
  ELSE LET content == PrepareEmailContent(SanitizeInput(data), adminEmail)
       IN IF content.end.kind = "throw"
          THEN [response |-> SendMailCatch(Response(500, {content.end.error})),
                mails |-> <<>>, logs |-> <<CatchLog>>]
          ELSE [response |-> NoResponse,
                mails |-> DispatchBoth(content.mails), logs |-> <<>>]

\* sendMail after sendEmails has ended
SendMailFinish(end) ==
  IF end.kind = "throw"
  THEN [response |-> SendMailCatch(Response(500, {end.error})),
        logs |-> <<CatchLog>>]
  ELSE [response |-> Sent,
        logs |-> <<LogEntry("log", "Contact form successfully sent", <<>>)>>]

(* ------------------------------------------------------------------ *)
(* State                                                               *)
(* ------------------------------------------------------------------ *)
VARIABLES
  pc,            \* where the request (or the direct call of verify) stands
  body,          \* the JSON body of the POST /mail/send request
  adminEmail,    \* process.env.ADMIN_EMAIL
  dto,           \* the MailerDto the ValidationPipe hands to sendMail
  gateArgs,      \* the arguments of the running call of verify
  httpRequests,  \* the assessment requests posted to the scoring service
  httpOutcome,   \* what the awaited post settled with
  gate,          \* how verify ended
  logs,          \* the console and Logger records, in order
  mails,         \* the mailerService.sendMail calls, in order
  results,       \* the state of each send's promise
  settleOrder,   \* the order in which the sends settled
  response       \* what the caller receives

vars ==
  <<pc, body, adminEmail, dto, gateArgs, httpRequests, httpOutcome, gate,
    logs, mails, results, settleOrder, response>>

(* ------------------------------------------------------------------ *)
(* Inputs                                                              *)
(* ------------------------------------------------------------------ *)
Tokens ==
  {UNDEF, <<>>, <<" ">>, <<"t", "o", "k">>, Rep("t", PartialTokenLen),
   Rep("t", PartialTokenLen + TokenOver)}

FirstNames ==
  {UNDEF, <<>>, <<" ">>, <<" ", "J", " ">>, Rep("a", FirstNameMax + FieldOver)}
LastNames == {UNDEF, <<" ">>, <<"D">>}
Emails ==
  {UNDEF, <<" ">>, <<"J", "@", "x", ".", "c", "o", " ">>, <<"j", "x">>}
Phones == {UNDEF, <<" ">>, <<"5", "-", "5">>, <<"5", "a">>}
PetTypes == {UNDEF, <<" ">>, <<"d">>}
DatesValues == {UNDEF, <<>>, <<"1">>}
Messages == {UNDEF, <<"m">>}

Bodies ==
  [firstName : FirstNames, lastName : LastNames, email : Emails,
   phone : Phones, petType : PetTypes, dates : DatesValues,
   message : Messages, recaptchaToken : Tokens]

AdminEmails == {UNDEF, <<"operator@site">>}

MinScores == {0, DefaultMinScore, 10}

NoBody ==
  [firstName |-> UNDEF, lastName |-> UNDEF, email |-> UNDEF, phone |-> UNDEF,
   petType |-> UNDEF, dates |-> UNDEF, message |-> UNDEF,
   recaptchaToken |-> UNDEF]

NoArgs == [token |-> UNDEF, expectedAction |-> Unspecified, minScore |-> 0]

NoResults == [k \in MailKinds |-> "none"]

Idle ==
  /\ dto = NoBody
  /\ httpRequests = <<>>
  /\ httpOutcome = NoOutcome
  /\ gate = NotEnded
  /\ logs = <<>>
  /\ mails = <<>>
  /\ results = NoResults
  /\ settleOrder = <<>>
  /\ response = NoResponse

\* a request arrives at POST /mail/send
Init ==
  /\ pc = "received"
  /\ body \in Bodies
  /\ adminEmail \in AdminEmails
  /\ gateArgs = NoArgs
  /\ Idle

\* verify is called on its own
GateInit ==
  /\ pc = "gate_idle"
  /\ body = NoBody
  /\ adminEmail = UNDEF
  /\ gateArgs \in [token : Tokens, expectedAction : {Unspecified} \cup Actions,
                   minScore : MinScores]
  /\ Idle

(* ------------------------------------------------------------------ *)
(* POST /mail/send                                                     *)
(* ------------------------------------------------------------------ *)
\* @UsePipes(new ValidationPipe({ transform: true, whitelist: true }))
ValidationPipe ==
  /\ pc = "received"
  /\ LET d == TransformDto(body)
         errors == ValidationErrors(d)
     IN IF errors # {}
        THEN /\ response' = ValidationFailed(errors)
             /\ pc' = "responded"
             /\ dto' = dto
        ELSE /\ dto' = d
             /\ pc' = "handler"
             /\ response' = response
  /\ UNCHANGED <<body, adminEmail, gateArgs, httpRequests, httpOutcome, gate,
                 logs, mails, results, settleOrder>>

\* the sends of mails start: every promise is pending
StartedResults(ms) ==
  [k \in MailKinds |->
     IF \E i \in 1..Len(ms) : ms[i].kind = k THEN "pending" ELSE "none"]

\* sendMail from its entry to the await of verify (or through it, when
\* verify ends without posting)
SendMailStart ==
  /\ pc = "handler"
  /\ LET entry == LogEntry("log", "Contact form submission from IP", <<>>)
     IN IF Falsy(dto.recaptchaToken)
        THEN /\ response' = SendMailCatch(TokenMissing)
             /\ logs' = logs \o <<entry,
                                  LogEntry("warn", "Missing reCAPTCHA token from IP", <<>>),
                                  CatchLog>>
             /\ pc' = "responded"
             /\ UNCHANGED <<gateArgs, httpRequests, gate, mails, results>>
        ELSE LET e == VerifyEnter(dto.recaptchaToken, ExpectedAction)
                 after == SendMailAfterVerify(e.result.end, dto, adminEmail)
             IN /\ gateArgs' = [token |-> dto.recaptchaToken,
                                expectedAction |-> ExpectedAction,
                                minScore |-> HandlerMinScore]
                /\ httpRequests' = httpRequests \o e.requests
                /\ IF e.awaiting
                   THEN /\ pc' = "verifying"
                        /\ logs' = logs \o <<entry>>
                        /\ UNCHANGED <<gate, mails, results, response>>
                   ELSE /\ gate' = e.result.end
                        /\ logs' = logs \o <<entry>> \o e.result.logs \o after.logs
                        /\ mails' = after.mails
                        /\ results' = StartedResults(after.mails)
                        /\ response' = after.response
                        /\ pc' = IF after.response = NoResponse
                                 THEN "sending" ELSE "responded"
  /\ UNCHANGED <<body, adminEmail, dto, httpOutcome, settleOrder>>

\* the scoring service's answer arrives: verify ends and sendMail runs on
\* to the await of sendEmails
VerifySettles ==
  /\ pc = "verifying"
  /\ \E o \in HttpOutcomes :
       LET r == VerifyResume(gateArgs.token, gateArgs.expectedAction,
                             gateArgs.minScore, o)
           after == SendMailAfterVerify(r.end, dto, adminEmail)
       IN /\ httpOutcome' = o
          /\ gate' = r.end
          /\ logs' = logs \o r.logs \o after.logs
          /\ mails' = after.mails
          /\ results' = StartedResults(after.mails)
          /\ response' = after.response
          /\ pc' = IF after.response = NoResponse THEN "sending" ELSE "responded"
  /\ UNCHANGED <<body, adminEmail, dto, gateArgs, httpRequests, settleOrder>>

\* one pending send settles, in any order, either way
SendSettles ==
  /\ pc = "sending"
  /\ \E k \in MailKinds, outcome \in {"fulfilled", "rejected"} :
       /\ results[k] = "pending"
       /\ results' = [results EXCEPT ![k] = outcome]
       /\ settleOrder' = Append(settleOrder, k)
  /\ UNCHANGED <<pc, body, adminEmail, dto, gateArgs, httpRequests,
                 httpOutcome, gate, logs, mails, response>>

\* Promise.allSettled resolves: sendEmails ends and sendMail responds
SendEmailsReturns ==
  /\ pc = "sending"
  /\ AllSettled(results)
  /\ LET fin == SendMailFinish(SendEmailsEnd(results))
     IN /\ response' = fin.response
        /\ logs' = logs \o SendEmailsLogs(results) \o fin.logs
  /\ pc' = "responded"
  /\ UNCHANGED <<body, adminEmail, dto, gateArgs, httpRequests, httpOutcome,
                 gate, mails, results, settleOrder>>

Next ==
  \/ ValidationPipe
  \/ SendMailStart
  \/ VerifySettles
  \/ SendSettles
  \/ SendEmailsReturns

Spec == Init /\ [][Next]_vars

(* ------------------------------------------------------------------ *)
(* verify called on its own                                            *)
(* ------------------------------------------------------------------ *)
GateCall ==
  /\ pc = "gate_idle"
  /\ LET e == VerifyEnter(gateArgs.token, gateArgs.expectedAction)
     IN /\ httpRequests' = httpRequests \o e.requests
        /\ gate' = e.result.end
        /\ logs' = logs \o e.result.logs
        /\ pc' = IF e.awaiting THEN "gate_waiting" ELSE "gate_done"
  /\ UNCHANGED <<body, adminEmail, dto, gateArgs, httpOutcome, mails,
                 results, settleOrder, response>>

GateSettles ==
  /\ pc = "gate_waiting"
  /\ \E o \in HttpOutcomes :
       LET r == VerifyResume(gateArgs.token, gateArgs.expectedAction,
                             gateArgs.minScore, o)
       IN /\ httpOutcome' = o
          /\ gate' = r.end
          /\ logs' = logs \o r.logs
  /\ pc' = "gate_done"
  /\ UNCHANGED <<body, adminEmail, dto, gateArgs, httpRequests, mails,
                 results, settleOrder, response>>

GateNext == GateCall \/ GateSettles

GateSpec == GateInit /\ [][GateNext]_vars

(* ------------------------------------------------------------------ *)
(* Properties                                                          *)
(* ------------------------------------------------------------------ *)
\* the submitted body passes every rule of MailerDto
BodyValid == ValidationErrors(TransformDto(body)) = {}

\* the assessment is valid, for the action contact_form, with a score of
\* at least 0.5
AssessmentAccepted ==
  /\ httpOutcome.kind = "ok"
  /\ httpOutcome.hasBody /\ httpOutcome.hasTP /\ httpOutcome.hasRA
  /\ httpOutcome.valid
  /\ httpOutcome.action = "contact_form"
  /\ httpOutcome.score >= 5

\* the assessment is valid and for the action contact_form
AssessmentValidForForm ==
  /\ httpOutcome.kind = "ok"
  /\ httpOutcome.hasBody /\ httpOutcome.hasTP
  /\ httpOutcome.valid
  /\ httpOutcome.action = "contact_form"

\* the score of the assessment, a missing one counting as 0
AssessedScore ==
  IF httpOutcome.hasRA /\ httpOutcome.score # NoScore THEN httpOutcome.score ELSE 0

SentKinds == {mails[i].kind : i \in 1..Len(mails)}

\* C1: a mailerService.sendMail call has been made only if the request
\* passed every field validation and verify returned true for an assessment
\* that is valid, for contact_form, with score >= 0.5; when validation
\* fails, the token is absent or verify returned false, nothing is sent.
C1_NoSendUnlessVerified ==
  /\ mails # <<>> =>
       /\ BodyValid
       /\ gate = Return(TRUE)
       /\ AssessmentAccepted
  /\ (~BodyValid \/ Falsy(body.recaptchaToken)
        \/ (gate.kind = "return" /\ ~gate.value)) => mails = <<>>

C1_Witness == pc = "sending" /\ Len(mails) = 2 /\ httpOutcome.score = 5

\* C2 as stated: every valid request whose token verifies gets exactly two
\* sends (operator, submitter) and the success response.
C2_Original ==
  (pc = "responded" /\ BodyValid /\ AssessmentAccepted) =>
    /\ Len(mails) = 2
    /\ SentKinds = {"admin", "user"}
    /\ response = Sent

\* C2 amended: every valid request whose token verifies, with ADMIN_EMAIL
\* configured, gets exactly two sends (operator, submitter), and the
\* success response whenever the operator send succeeds.
C2_TwoSendsAndSuccess ==
  (BodyValid /\ AssessmentAccepted /\ ~Falsy(adminEmail)) =>
    /\ Len(mails) = 2
    /\ SentKinds = {"admin", "user"}
    /\ (pc = "responded" /\ results.admin = "fulfilled") => response = Sent

C2_Witness ==
  /\ pc = "responded" /\ Len(mails) = 2 /\ response = Sent
  /\ results.admin = "fulfilled" /\ results.user = "fulfilled"

\* C3: once both emails are dispatched, the response depends on the
\* operator send alone: 500 when it failed, success when it succeeded,
\* whatever the submitter send did and in whichever order they settled.
C3_OperatorSendDecides ==
  (pc = "responded" /\ Len(mails) = 2) =>
    /\ results.admin = "rejected" => response.status = 500
    /\ results.admin = "fulfilled" => response = Sent
    /\ results.admin \in {"rejected", "fulfilled"}

C3_Witness ==
  /\ pc = "responded"
  /\ results.admin = "rejected" /\ results.user = "fulfilled"
  /\ settleOrder = <<"user", "admin">>
  /\ response.status = 500

\* C4: whenever sendEmails is reached both sends are started, also when
\* one of them has failed, and the response is produced only after both
\* have settled.
C4_BothSendsAttempted ==
  /\ (pc = "sending" \/ mails # <<>>) =>
       /\ SentKinds = {"admin", "user"}
       /\ \A k \in {"admin", "user"} : results[k] # "none"
  /\ (mails # <<>> /\ response # NoResponse) =>
       \A k \in {"admin", "user"} : results[k] \in {"fulfilled", "rejected"}

C4_Witness ==
  /\ pc = "responded"
  /\ results.admin = "rejected" /\ results.user = "rejected"
  /\ settleOrder = <<"admin", "user">>

\* C5 as stated: for a non-empty token verify returns false, and does not
\* raise, when the call fails, when body, tokenProperties or riskAnalysis
\* is missing, when the assessment is invalid, when the echoed action
\* differs from expectedAction, or when the score is below minScore.
C5_Original ==
  (pc = "gate_done" /\ ~Falsy(gateArgs.token)
     /\ \/ httpOutcome.kind \in {"neterr", "httperr"}
        \/ ~httpOutcome.hasBody
        \/ ~httpOutcome.hasTP
        \/ ~httpOutcome.hasRA
        \/ ~httpOutcome.valid
        \/ httpOutcome.action # gateArgs.expectedAction
        \/ AssessedScore < gateArgs.minScore)
  => gate = Return(FALSE)

\* C5 amended: for a non-empty token verify returns false, and does not
\* raise, when the call fails, when body or tokenProperties is missing,
\* when the assessment is invalid, when an expectedAction was given and
\* the echoed action differs from it, or when the score (0 when
\* riskAnalysis or its score is missing) is below minScore.
C5_FailsClosed ==
  (pc = "gate_done" /\ ~Falsy(gateArgs.token)
     /\ \/ httpOutcome.kind \in {"neterr", "httperr"}
        \/ ~httpOutcome.hasBody
        \/ ~httpOutcome.hasTP
        \/ ~httpOutcome.valid
        \/ (gateArgs.expectedAction # Unspecified
              /\ httpOutcome.action # gateArgs.expectedAction)
        \/ AssessedScore < gateArgs.minScore)
  => gate = Return(FALSE)

C5_Witness ==
  /\ pc = "gate_done"
  /\ httpOutcome.kind = "ok" /\ ~httpOutcome.hasBody
  /\ gate = Return(FALSE)

\* C6: called with a missing token, verify reports the distinct condition
\* 'reCAPTCHA token is required' to its caller instead of returning false,
\* and no request has been posted to the scoring service.
C6_TokenRequiredReported ==
  (pc = "gate_done" /\ Falsy(gateArgs.token)) =>
    /\ gate = Throw("reCAPTCHA token is required")
    /\ httpRequests = <<>>

\* C7: a valid assessment for contact_form whose score (0 if missing) is
\* below 0.5 gets no send and the 401 response, whose message is the same
\* fixed text for every rejection; a score of exactly 0.5 is accepted.
C7_LowScoreRejected ==
  /\ (pc = "responded" /\ BodyValid /\ AssessmentValidForForm) =>
       /\ AssessedScore < 5 =>
            /\ mails = <<>>
            /\ response.status = 401
       /\ AssessedScore = 5 => (gate = Return(TRUE) /\ response.status # 401)
  /\ response.status = 401 =>
       response.message = {"Security verification failed. Please try again."}

C7_Witness ==
  /\ pc = "responded" /\ AssessmentValidForForm
  /\ httpOutcome.hasRA /\ httpOutcome.score = 4
  /\ response.status = 401

\* absent, empty or only white space
Missing(v) == v = UNDEF \/ Trim(v) = <<>>

RequiredMessage ==
  [firstName |-> "First name is required",
   lastName |-> "Last name is required",
   email |-> "Email is required",
   phone |-> "Phone number is required",
   petType |-> "Pet type is required",
   dates |-> "Dates are required",
   message |-> "Message is required",
   recaptchaToken |-> "Security verification is required"]

\* the rules of MailerDto that field f of the submitted body breaks
FieldErrors(f) ==
  LET d == TransformDto(body)
  IN [firstName |-> FirstNameErrors(d.firstName),
      lastName |-> LastNameErrors(d.lastName),
      email |-> EmailErrors(d.email),
      phone |-> PhoneErrors(d.phone),
      petType |-> PetTypeErrors(d.petType),
      dates |-> DatesErrors(d.dates),
      message |-> {},
      recaptchaToken |-> TokenErrors(d.recaptchaToken)][f]

\* C8: a request missing one required field (firstName, lastName, email,
\* phone, petType, dates, message, token), the others being present and
\* well-formed, gets no send, no call of the Verification Gate, and a 400
\* response naming the field.
C8_MissingFieldRejected ==
  \A f \in DOMAIN RequiredMessage :
    (/\ Missing(body[f])
     /\ \A g \in DOMAIN RequiredMessage \ {f} :
          ~Missing(body[g]) /\ FieldErrors(g) = {})
    => /\ mails = <<>>
       /\ httpRequests = <<>>
       /\ pc = "responded" =>
            (response.status = 400 /\ RequiredMessage[f] \in response.message)

\* C9: no record logged by verify or by the handler contains the complete
\* token, whatever its length.
C9_TokenNeverLoggedInFull ==
  ~Falsy(body.recaptchaToken) =>
    \A i \in 1..Len(logs) : ~Contains(logs[i].text, body.recaptchaToken)

DetailFields ==
  {"firstName", "lastName", "email", "phone", "petType", "dates", "message"}

\* the request as normalized: trimmed, the email in lower case
Normalized(f) ==
  IF f = "email" THEN ToLowerCase(Trim(body[f])) ELSE Trim(body[f])

\* C10: the operator notification contains every submitted detail field of
\* the normalized request; the submitter confirmation is a fixed template
\* around the submitter's name.
C10_OperatorMailHasAllDetails ==
  \A i \in 1..Len(mails) :
    /\ mails[i].kind = "admin" =>
         \A f \in DetailFields :
           body[f] # UNDEF => Contains(mails[i].text, Normalized(f))
    /\ mails[i].kind = "user" =>
         mails[i].text =
           <<"Hi ">> \o Normalized("firstName") \o <<" ">> \o Normalized("lastName")
           \o <<", Thank you for reaching out to us ... do not reply to this message.">>

====
